---- MODULE Spec2Model ----
(***************************************************************************)
(* The upload queue of src-tauri/src/features/upload/mod.rs:               *)
(* start_upload_queue (admission), cancel_upload_queue, and the drain task *)
(* process_upload_queue with its helpers.  Every await point of the async  *)
(* code is a step boundary; the code between two awaits is one step.       *)
(***************************************************************************)
EXTENDS Naturals, Sequences, FiniteSets, TLC

\* ---------------------------------------------------------------- bounds
MaxItems == 3
MaxBatch == 3
MaxCalls == 2
QueueCap == 2
MaxCallFailures == 1
MaxCleanupFailures == 1

Ids == 1..MaxItems
Callers == 1..MaxCalls

\* ------------------------------------------------------- inputs and types
\* UploadItemInput: the path decides existence and the basename; the
\* metadata decides the (name, artist) album key.
Inputs ==
    { [path |-> "/m/a.wav", base |-> "a.wav", exists |-> TRUE,  album |-> <<"Alb", "X">>],
      [path |-> "/m/b.wav", base |-> "b.wav", exists |-> TRUE,  album |-> <<"Alb", "Y">>],
      [path |-> "/m/gone.wav", base |-> "gone.wav", exists |-> FALSE, album |-> <<"Alb", "X">>] }

RECURSIVE SeqsUpTo(_)
SeqsUpTo(n) ==
    IF n = 0 THEN { <<>> }
    ELSE LET shorter == SeqsUpTo(n - 1)
         IN  shorter \cup { Append(s, x) : s \in { t \in shorter : Len(t) = n - 1 }, x \in Inputs }

Batches == SeqsUpTo(MaxBatch)

\* UploadStatus; Error(String) is one value per message prefix the code builds.
ErrNotFound   == "Error(File not found)"
ErrQueue      == "Error(Failed to queue)"
ErrTranscode  == "Error(Transcoding failed)"
ErrOriginal   == "Error(Original upload failed)"
ErrAAC        == "Error(AAC upload failed)"
ErrMetadata   == "Error(Metadata storage failed)"
ErrorStatuses == { ErrNotFound, ErrQueue, ErrTranscode, ErrOriginal, ErrAAC, ErrMetadata }
Chain == << "Pending", "Transcoding", "UploadingOriginal", "UploadingAAC", "StoringMetadata", "Complete" >>
TerminalStatuses == { "Complete", "Cancelled" } \cup ErrorStatuses
UploadStatus == { Chain[i] : i \in 1..Len(Chain) } \cup { "Cancelled" } \cup ErrorStatuses

\* UploadQueueItem as built at admission: the four cleanup fields are None.
UploadQueueItem(in) ==
    [ path |-> in.path, base |-> in.base, album |-> in.album,
      temp_aac_path |-> FALSE, r2_original_key |-> FALSE,
      r2_aac_key |-> FALSE, db_track_id |-> FALSE ]

NoItem == UploadQueueItem([path |-> "", base |-> "", exists |-> FALSE, album |-> <<"", "">>])

\* Object keys: format!("tracks/original/{}", file_name) and
\* format!("tracks/aac/{}", temp file name); the temp name is fresh per item.
OriginalKey(it) == << "tracks/original", it.base >>
AacKey(id) == << "tracks/aac", id >>

VARIABLES
    r2_client,      \* R2State.client is Some
    mongo_client,   \* MongoState.client is Some
    bucket_name,    \* R2State.bucket_name is Some
    window,         \* the "main" webview: "ok", "absent", or "failing" (emit returns Err)
    cancel_flag,    \* UploadState.cancel_flag
    is_processing,  \* UploadState.is_processing
    progress_map,   \* UploadState.progress_map: id -> status, "none" when no entry
    pm_lock,        \* holder of the progress_map mutex: 0 or a caller
    queue,          \* the mpsc channel buffer: ids of queued items
    queue_rx,       \* the receiver: "stored" in UploadState, "taken" by a drain, "dropped"
    r2_lock,        \* the drain holds the R2State.client guard
    mongo_lock,     \* the drain holds the MongoState.client guard
    item,           \* id -> UploadQueueItem
    next_id,        \* next fresh Uuid
    call,           \* caller -> [pc, batch, result] of its start_upload_queue call
    drain,          \* position of the spawned task
    cur,            \* the item the drain holds (0: none)
    res,            \* result of the drain's last external call: "ok" | "err" | "none"
    album_id,       \* store_track_metadata's local album_id (0: none)
    temp_files,     \* local temp files, by item id
    blobs,          \* object store: keys present
    tracks,         \* tracks collection
    albums,         \* albums collection
    emitted,        \* id -> statuses delivered as upload://status-update
    written,        \* id -> statuses written to progress_map
    finished,       \* upload://queue-finished events emitted or attempted
    cleanup_log,    \* cleanup calls made for cur, in order
    cleanup_failed, \* cleanup calls for cur that failed
    call_failures,  \* external calls that returned an error so far
    transcoded,     \* ids of the items whose transcode produced a file
    cleanup_failures, \* cleanup calls that failed so far
    tc              \* one run of transcode_to_aac: its arguments, position and effects

vars == << r2_client, mongo_client, bucket_name, window, cancel_flag, is_processing,
           progress_map, pm_lock, queue, queue_rx, r2_lock, mongo_lock, item, next_id,
           call, drain, cur, res, album_id, temp_files, blobs, tracks, albums,
           emitted, written, finished, cleanup_log, cleanup_failed,
           call_failures, cleanup_failures, transcoded, tc >>

config_vars == << r2_client, mongo_client, bucket_name, window >>
store_vars  == << temp_files, blobs, tracks, albums >>
log_vars    == << progress_map, emitted, written >>
clean_vars  == << cleanup_log, cleanup_failed >>

IdleCall == [pc |-> "idle", batch |-> <<>>, result |-> "none"]

\* No transcode_to_aac run: nothing was created or spawned.
TcIdle == [ pc |-> "idle", input |-> "", output |-> "", input_exists |-> FALSE, parent |-> "none",
            dir_created |-> FALSE, spawned |-> FALSE, result |-> [kind |-> "none"] ]

\* UploadState::new, and the managed R2State / MongoState in any configuration.
Init ==
    /\ r2_client \in BOOLEAN
    /\ mongo_client \in BOOLEAN
    /\ bucket_name \in BOOLEAN
    /\ window \in { "ok", "absent", "failing" }
    /\ cancel_flag = FALSE
    /\ is_processing = FALSE
    /\ progress_map = [i \in Ids |-> "none"]
    /\ pm_lock = 0
    /\ queue = <<>>
    /\ queue_rx = "stored"
    /\ r2_lock = FALSE
    /\ mongo_lock = FALSE
    /\ item = [i \in Ids |-> NoItem]
    /\ next_id = 1
    /\ call = [c \in Callers |-> IdleCall]
    /\ drain = "none"
    /\ cur = 0
    /\ res = "none"
    /\ album_id = 0
    /\ temp_files = {}
    /\ blobs = {}
    /\ tracks = {}
    /\ albums = {}
    /\ emitted = [i \in Ids |-> <<>>]
    /\ written = [i \in Ids |-> <<>>]
    /\ finished = 0
    /\ cleanup_log = <<>>
    /\ cleanup_failed = {}
    /\ call_failures = 0
    /\ transcoded = {}
    /\ cleanup_failures = 0
    /\ tc = TcIdle


\* ------------------------------------------------------------- helpers
RECURSIVE SumLen(_)
SumLen(S) ==
    IF S = {} THEN 0
    ELSE LET c == CHOOSE x \in S : TRUE IN Len(call[c].batch) + SumLen(S \ {c})

\* Item ids still to be drawn by the calls in progress.
Reserved == SumLen(Callers)

\* window.emit of one upload://status-update: delivered only by a working window.
Emit(id, st) ==
    IF window = "ok" THEN [emitted EXCEPT ![id] = Append(@, st)] ELSE emitted

\* progress_map.insert(item_id, progress) after the emit, in start_upload_queue
\* (the caller holds the progress_map guard).
InsertProgress(id, st) ==
    /\ progress_map' = [progress_map EXCEPT ![id] = st]
    /\ written' = [written EXCEPT ![id] = Append(@, st)]
    /\ emitted' = Emit(id, st)

\* Mutant of update_progress: the event is emitted, the entry is not updated.
update_progress_emit_only(id, st) ==
    /\ pm_lock = 0
    /\ progress_map' = progress_map
    /\ written' = written
    /\ emitted' = Emit(id, st)

\* update_progress: lock the map, set the entry's status, emit, unlock.
update_progress(id, st) ==
    /\ pm_lock = 0
    /\ progress_map' = [progress_map EXCEPT ![id] = st]
    /\ written' = [written EXCEPT ![id] = Append(@, st)]
    /\ emitted' = Emit(id, st)

\* ------------------------------------------------- start_upload_queue
\* The command is invoked with a batch.
start_invoke(c) ==
    /\ call[c].pc = "idle"
    /\ \A d \in Callers : d < c => call[d].pc # "idle"
    /\ \E b \in Batches :
          /\ (next_id - 1) + Reserved + Len(b) <= MaxItems
          /\ call' = [call EXCEPT ![c] = [pc |-> "check_r2", batch |-> b, result |-> "none"]]
    /\ UNCHANGED << tc, config_vars, transcoded, call_failures, cleanup_failures, cancel_flag, is_processing, pm_lock, queue, queue_rx,
                    r2_lock, mongo_lock, item, next_id, drain, cur, res, album_id,
                    store_vars, log_vars, finished, clean_vars >>

\* Line 155: r2_state.client.lock().await.is_none().
start_check_r2(c) ==
    /\ call[c].pc = "check_r2"
    /\ ~r2_lock
    /\ call' = [call EXCEPT ![c] =
                   IF r2_client THEN [@ EXCEPT !.pc = "check_mongo"]
                   ELSE [pc |-> "done", batch |-> <<>>, result |-> "err_r2"]]
    /\ UNCHANGED << tc, config_vars, transcoded, call_failures, cleanup_failures, cancel_flag, is_processing, pm_lock, queue, queue_rx,
                    r2_lock, mongo_lock, item, next_id, drain, cur, res, album_id,
                    store_vars, log_vars, finished, clean_vars >>

\* Lines 156-159: the mongo check, the empty-batch check, and the flag reset.
start_check_mongo(c) ==
    /\ call[c].pc = "check_mongo"
    /\ ~mongo_lock
    /\ IF ~mongo_client
       THEN /\ call' = [call EXCEPT ![c] = [pc |-> "done", batch |-> <<>>, result |-> "err_mongo"]]
            /\ UNCHANGED cancel_flag
       ELSE IF call[c].batch = <<>>
       THEN /\ call' = [call EXCEPT ![c] = [pc |-> "done", batch |-> <<>>, result |-> "err_empty"]]
            /\ UNCHANGED cancel_flag
       ELSE /\ cancel_flag' = FALSE
            /\ call' = [call EXCEPT ![c].pc = "lock_map"]
    /\ UNCHANGED << tc, config_vars, transcoded, call_failures, cleanup_failures, is_processing, pm_lock, queue, queue_rx,
                    r2_lock, mongo_lock, item, next_id, drain, cur, res, album_id,
                    store_vars, log_vars, finished, clean_vars >>

\* Line 160: progress_map.lock().await.
start_lock_map(c) ==
    /\ call[c].pc = "lock_map"
    /\ pm_lock = 0
    /\ pm_lock' = c
    /\ call' = [call EXCEPT ![c].pc = "loop"]
    /\ UNCHANGED << tc, config_vars, transcoded, call_failures, cleanup_failures, cancel_flag, is_processing, queue, queue_rx,
                    r2_lock, mongo_lock, item, next_id, drain, cur, res, album_id,
                    store_vars, log_vars, finished, clean_vars >>

\* The emit-then-insert tail of each branch of the loop body: a failing emit
\* returns Err through `?` (the guard is dropped, nothing is inserted).
start_report(c, id, st) ==
    IF window = "failing"
    THEN /\ call' = [call EXCEPT ![c] = [pc |-> "done", batch |-> <<>>, result |-> "err_emit"]]
         /\ pm_lock' = 0
         /\ UNCHANGED log_vars
    ELSE /\ call' = [call EXCEPT ![c].batch = Tail(@)]
         /\ InsertProgress(id, st)
         /\ UNCHANGED pm_lock

\* Lines 162-211, one iteration: admit one item of the batch.
start_loop_item(c) ==
    /\ call[c].pc = "loop"
    /\ call[c].batch # <<>>
    /\ LET in == Head(call[c].batch)
           id == next_id
       IN  /\ next_id' = next_id + 1
           /\ IF ~in.exists
              THEN /\ start_report(c, id, ErrNotFound)
                   /\ UNCHANGED << queue, item >>
              ELSE /\ Len(queue) < QueueCap \/ queue_rx = "dropped"
                   /\ IF queue_rx = "dropped"
                      THEN /\ start_report(c, id, ErrQueue)
                           /\ UNCHANGED << queue, item >>
                      ELSE /\ queue' = Append(queue, id)
                           /\ item' = [item EXCEPT ![id] = UploadQueueItem(in)]
                           /\ start_report(c, id, "Pending")
    /\ UNCHANGED << tc, config_vars, transcoded, call_failures, cleanup_failures, cancel_flag, is_processing, queue_rx,
                    r2_lock, mongo_lock, drain, cur, res, album_id,
                    store_vars, finished, clean_vars >>

\* Mutant of start_spawn: the task is spawned without the compare_exchange.
start_spawn_without_cas(c) ==
    /\ call[c].pc = "loop"
    /\ call[c].batch = <<>>
    /\ pm_lock' = 0
    /\ call' = [call EXCEPT ![c] = [pc |-> "done", batch |-> <<>>, result |-> "ok"]]
    /\ is_processing' = TRUE
    /\ drain' = "spawned"
    /\ UNCHANGED << tc, config_vars, transcoded, call_failures, cleanup_failures, cancel_flag, queue, queue_rx,
                    r2_lock, mongo_lock, item, next_id, cur, res, album_id,
                    store_vars, log_vars, finished, clean_vars >>

\* Lines 212-240: drop the guard, compare_exchange(false, true), spawn, return Ok.
start_spawn(c) ==
    /\ call[c].pc = "loop"
    /\ call[c].batch = <<>>
    /\ pm_lock' = 0
    /\ call' = [call EXCEPT ![c] = [pc |-> "done", batch |-> <<>>, result |-> "ok"]]
    /\ IF ~is_processing
       THEN /\ is_processing' = TRUE
            /\ drain' = "spawned"
       ELSE UNCHANGED << is_processing, drain >>
    /\ UNCHANGED << tc, config_vars, transcoded, call_failures, cleanup_failures, cancel_flag, queue, queue_rx,
                    r2_lock, mongo_lock, item, next_id, cur, res, album_id,
                    store_vars, log_vars, finished, clean_vars >>

\* ------------------------------------------------ cancel_upload_queue
\* Mutant of cancel_upload_queue: the flag is toggled instead of set.
cancel_upload_queue_toggles ==
    /\ cancel_flag' = ~cancel_flag
    /\ UNCHANGED << tc, config_vars, transcoded, call_failures, cleanup_failures, is_processing, pm_lock, queue, queue_rx,
                    r2_lock, mongo_lock, item, next_id, call, drain, cur, res, album_id,
                    store_vars, log_vars, finished, clean_vars >>

\* Lines 243-248: cancel_flag.store(true), Ok(()).
cancel_upload_queue ==
    /\ cancel_flag' = TRUE
    /\ UNCHANGED << tc, config_vars, transcoded, call_failures, cleanup_failures, is_processing, pm_lock, queue, queue_rx,
                    r2_lock, mongo_lock, item, next_id, call, drain, cur, res, album_id,
                    store_vars, log_vars, finished, clean_vars >>


\* An external call returns Ok or Err; the model bounds how many return Err.
Results == IF call_failures < MaxCallFailures THEN { "ok", "err" } ELSE { "ok" }
Failed(r) == call_failures' = call_failures + (IF r = "err" THEN 1 ELSE 0)

\* The cleanup calls among `calls` that fail; the model bounds how many do.
Failures(calls) ==
    { f \in SUBSET calls : cleanup_failures + Cardinality(f) <= MaxCleanupFailures }

\* ------------------------------------------------------ cleanup helpers
\* The calls perform_cleanup makes for an item, in the order it makes them.
perform_cleanup_calls(it) ==
    (IF it.temp_aac_path THEN << "temp" >> ELSE <<>>)
    \o (IF it.r2_original_key THEN << "original" >> ELSE <<>>)
    \o (IF it.r2_aac_key THEN << "aac" >> ELSE <<>>)
    \o (IF it.db_track_id THEN << "track" >> ELSE <<>>)

Range(s) == { s[i] : i \in DOMAIN s }

\* Mutant of cleanup_temp_file: the file is never removed.
cleanup_temp_file_skipped(id, failed) == temp_files

\* cleanup_temp_file: std::fs::remove_file, a failure is only logged.
cleanup_temp_file(id, failed) ==
    IF "temp" \in failed THEN temp_files ELSE temp_files \ { id }

\* Mutant of delete_r2_objects: only the AAC object is deleted.
delete_r2_objects_aac_only(it, id, failed) ==
    blobs \ (IF it.r2_aac_key /\ "aac" \notin failed THEN { AacKey(id) } ELSE {})

\* delete_r2_object for each key perform_cleanup holds; a failure is only logged.
delete_r2_objects(it, id, failed) ==
    blobs \ ( (IF it.r2_original_key /\ "original" \notin failed THEN { OriginalKey(it) } ELSE {})
              \cup (IF it.r2_aac_key /\ "aac" \notin failed THEN { AacKey(id) } ELSE {}) )

\* delete_mongodb_track: delete_one by the parsed id; a failure is only logged.
delete_mongodb_track(it, id, failed) ==
    IF it.db_track_id /\ "track" \notin failed
    THEN { t \in tracks : t.id # id }
    ELSE tracks

\* Mutant of perform_cleanup: the album the track referenced is deleted too.
perform_cleanup_deletes_album(it, id) ==
    \E failed \in Failures(Range(perform_cleanup_calls(it))) :
        /\ cleanup_failures' = cleanup_failures + Cardinality(failed)
        /\ temp_files' = (IF it.temp_aac_path THEN cleanup_temp_file(id, failed) ELSE temp_files)
        /\ blobs' = delete_r2_objects(it, id, failed)
        /\ tracks' = delete_mongodb_track(it, id, failed)
        /\ cleanup_log' = cleanup_log \o perform_cleanup_calls(it)
        /\ cleanup_failed' = cleanup_failed \cup failed
        /\ albums' = { a \in albums : a.id # album_id }

\* Mutant of perform_cleanup: the first failing step ends the cleanup.
perform_cleanup_stops_at_failure(it, id) ==
    \E failed \in Failures(Range(perform_cleanup_calls(it))) :
        /\ cleanup_failures' = cleanup_failures + Cardinality(failed)
        /\ cleanup_failed' = cleanup_failed \cup failed
        /\ UNCHANGED albums
        /\ IF failed = {}
           THEN /\ temp_files' = (IF it.temp_aac_path THEN cleanup_temp_file(id, failed) ELSE temp_files)
                /\ blobs' = delete_r2_objects(it, id, failed)
                /\ tracks' = delete_mongodb_track(it, id, failed)
                /\ cleanup_log' = cleanup_log \o perform_cleanup_calls(it)
           ELSE /\ UNCHANGED << temp_files, blobs, tracks >>
                /\ cleanup_log' = cleanup_log \o << Head(perform_cleanup_calls(it)) >>

\* perform_cleanup(item): every step whose field is Some, some of them failing.
perform_cleanup(it, id) ==
    \E failed \in Failures(Range(perform_cleanup_calls(it))) :
        /\ cleanup_failures' = cleanup_failures + Cardinality(failed)
        /\ temp_files' = (IF it.temp_aac_path THEN cleanup_temp_file(id, failed) ELSE temp_files)
        /\ blobs' = delete_r2_objects(it, id, failed)
        /\ tracks' = delete_mongodb_track(it, id, failed)
        /\ cleanup_log' = cleanup_log \o perform_cleanup_calls(it)
        /\ cleanup_failed' = cleanup_failed \cup failed
        /\ UNCHANGED albums

\* process_upload_queue returns: the receiver and both client guards are dropped.
loop_exit ==
    /\ queue_rx' = "dropped"
    /\ queue' = <<>>
    /\ r2_lock' = FALSE
    /\ mongo_lock' = FALSE
    /\ drain' = "returned"

\* The steps of the drain that start an external call (the task then awaits it).
ExternalCalls == { "transcoding", "put_original", "put_aac",
                   "find_album", "insert_album", "insert_track" }

\* ------------------------------------------------------ the spawned task
\* Mutant of drain_take_rx: every spawned task gets a receiver.
drain_take_rx_again ==
    /\ drain = "spawned"
    /\ queue_rx' = "taken"
    /\ drain' = "lock_r2"
    /\ UNCHANGED << tc, config_vars, transcoded, call_failures, cleanup_failures, cancel_flag, is_processing, pm_lock, queue,
                    r2_lock, mongo_lock, item, next_id, call, cur, res, album_id,
                    store_vars, log_vars, finished, clean_vars >>

\* Line 220: queue_rx.lock().await.take().
drain_take_rx ==
    /\ drain = "spawned"
    /\ IF queue_rx = "stored"
       THEN /\ queue_rx' = "taken"
            /\ drain' = "lock_r2"
       ELSE /\ drain' = "returned"
            /\ UNCHANGED queue_rx
    /\ UNCHANGED << tc, config_vars, transcoded, call_failures, cleanup_failures, cancel_flag, is_processing, pm_lock, queue,
                    r2_lock, mongo_lock, item, next_id, call, cur, res, album_id,
                    store_vars, log_vars, finished, clean_vars >>

\* Lines 261-267: r2_state.client.lock().await; the guard lives to the end.
drain_lock_r2 ==
    /\ drain = "lock_r2"
    /\ ~r2_lock
    /\ r2_lock' = TRUE
    /\ drain' = "lock_mongo"
    /\ UNCHANGED << tc, config_vars, transcoded, call_failures, cleanup_failures, cancel_flag, is_processing, pm_lock, queue, queue_rx,
                    mongo_lock, item, next_id, call, cur, res, album_id,
                    store_vars, log_vars, finished, clean_vars >>

\* Lines 268-279: the mongo guard, then the three capability checks.
drain_lock_mongo ==
    /\ drain = "lock_mongo"
    /\ ~mongo_lock
    /\ IF r2_client /\ mongo_client /\ bucket_name
       THEN /\ mongo_lock' = TRUE
            /\ drain' = "recv"
            /\ UNCHANGED << queue, queue_rx, r2_lock >>
       ELSE loop_exit
    /\ UNCHANGED << tc, config_vars, transcoded, call_failures, cleanup_failures, cancel_flag, is_processing, pm_lock,
                    item, next_id, call, cur, res, album_id,
                    store_vars, log_vars, finished, clean_vars >>

\* Mutant of drain_recv: the newest queued item is received first.
drain_recv_newest_first ==
    /\ drain = "recv"
    /\ queue # <<>>
    /\ cur' = queue[Len(queue)]
    /\ queue' = SubSeq(queue, 1, Len(queue) - 1)
    /\ res' = "none"
    /\ album_id' = 0
    /\ cleanup_log' = <<>>
    /\ cleanup_failed' = {}
    /\ drain' = IF cancel_flag THEN "upd_cancelled_pre" ELSE "upd_transcoding"
    /\ UNCHANGED << tc, config_vars, transcoded, call_failures, cleanup_failures, cancel_flag, is_processing, pm_lock, queue_rx,
                    r2_lock, mongo_lock, item, next_id, call,
                    store_vars, log_vars, finished >>

\* Lines 282-294: rx.recv().await yields an item; the first poll of the flag.
drain_recv ==
    /\ drain = "recv"
    /\ queue # <<>>
    /\ cur' = Head(queue)
    /\ queue' = Tail(queue)
    /\ res' = "none"
    /\ album_id' = 0
    /\ cleanup_log' = <<>>
    /\ cleanup_failed' = {}
    /\ drain' = IF cancel_flag THEN "upd_cancelled_pre" ELSE "upd_transcoding"
    /\ UNCHANGED << tc, config_vars, transcoded, call_failures, cleanup_failures, cancel_flag, is_processing, pm_lock, queue_rx,
                    r2_lock, mongo_lock, item, next_id, call,
                    store_vars, log_vars, finished >>

\* Mutant of drain_cancelled_pre: the `continue` is missing.
drain_cancelled_pre_no_continue ==
    /\ drain = "upd_cancelled_pre"
    /\ update_progress(cur, "Cancelled")
    /\ drain' = "upd_transcoding"
    /\ UNCHANGED << tc, config_vars, transcoded, call_failures, cleanup_failures, cancel_flag,
                    is_processing, pm_lock, queue, queue_rx,
                    r2_lock, mongo_lock, item, next_id, call, cur, res, album_id,
                    store_vars, finished, clean_vars >>

\* Lines 291-293: Cancelled before any work; continue.
drain_cancelled_pre ==
    /\ drain = "upd_cancelled_pre"
    /\ update_progress(cur, "Cancelled")
    /\ drain' = "recv"
    /\ UNCHANGED << tc, config_vars, transcoded, call_failures, cleanup_failures, cancel_flag, is_processing, pm_lock, queue, queue_rx,
                    r2_lock, mongo_lock, item, next_id, call, cur, res, album_id,
                    store_vars, finished, clean_vars >>

\* Lines 297-300 and 418: Transcoding is reported, run_transcoding creates the
\* temp file and hands transcode_to_aac to the blocking pool.  When the temp
\* file cannot be created the result is Err at once and line 302 polls.
drain_start_transcoding ==
    /\ drain = "upd_transcoding"
    /\ update_progress(cur, "Transcoding")
    /\ \E created \in Results :
          /\ Failed(created)
          /\ IF created = "ok"
             THEN /\ temp_files' = temp_files \cup { cur }
                  /\ drain' = "transcoding"
                  /\ UNCHANGED res
             ELSE /\ res' = "err"
                  /\ drain' = IF cancel_flag THEN "upd_cancelled_tc" ELSE "upd_error_tc"
                  /\ UNCHANGED temp_files
    /\ UNCHANGED << tc, config_vars, transcoded, cleanup_failures, cancel_flag, is_processing, pm_lock, queue, queue_rx,
                    r2_lock, mongo_lock, item, next_id, call, cur, album_id,
                    blobs, tracks, albums, finished, clean_vars >>

\* Mutant of drain_transcoding_returns: a failed transcode is not noticed.
drain_transcoding_returns_ignores_error ==
    /\ drain = "transcoding"
    /\ \E r \in Results :
          /\ Failed(r)
          /\ res' = r
          /\ temp_files' = IF r = "ok" THEN temp_files ELSE temp_files \ { cur }
          /\ transcoded' = IF r = "ok" THEN transcoded \cup { cur } ELSE transcoded
          /\ IF cancel_flag
             THEN /\ drain' = "upd_cancelled_tc"
                  /\ UNCHANGED item
             ELSE /\ item' = [item EXCEPT ![cur].temp_aac_path = (r = "ok")]
                  /\ drain' = "upd_original"
    /\ UNCHANGED << tc, config_vars, cleanup_failures, cancel_flag, is_processing, pm_lock, queue, queue_rx,
                    r2_lock, mongo_lock, next_id, call, cur, album_id,
                    blobs, tracks, albums, log_vars, finished, clean_vars >>

\* Lines 425-435 and 302-320: the transcode returns (the temp file is kept on
\* success and removed on failure); the flag is polled; the path is recorded.
drain_transcoding_returns ==
    /\ drain = "transcoding"
    /\ \E r \in Results :
          /\ Failed(r)
          /\ res' = r
          /\ temp_files' = IF r = "ok" THEN temp_files ELSE temp_files \ { cur }
          /\ transcoded' = IF r = "ok" THEN transcoded \cup { cur } ELSE transcoded
          /\ IF cancel_flag
             THEN /\ drain' = "upd_cancelled_tc"
                  /\ UNCHANGED item
             ELSE IF r = "ok"
             THEN /\ item' = [item EXCEPT ![cur].temp_aac_path = TRUE]
                  /\ drain' = "upd_original"
             ELSE /\ drain' = "upd_error_tc"
                  /\ UNCHANGED item
    /\ UNCHANGED << tc, config_vars, cleanup_failures, cancel_flag, is_processing, pm_lock, queue, queue_rx,
                    r2_lock, mongo_lock, next_id, call, cur, album_id,
                    blobs, tracks, albums, log_vars, finished, clean_vars >>

\* Lines 303-307: Cancelled after the transcoding attempt; the temp file of a
\* successful transcode is removed; break.
drain_cancelled_tc ==
    /\ drain = "upd_cancelled_tc"
    /\ update_progress(cur, "Cancelled")
    /\ IF res = "ok"
       THEN \E failed \in Failures({ "temp" }) :
               /\ cleanup_failures' = cleanup_failures + Cardinality(failed)
               /\ temp_files' = cleanup_temp_file(cur, failed)
               /\ cleanup_log' = cleanup_log \o << "temp" >>
               /\ cleanup_failed' = cleanup_failed \cup failed
       ELSE UNCHANGED << temp_files, clean_vars, cleanup_failures >>
    /\ loop_exit
    /\ res' = "none"
    /\ album_id' = 0
    /\ UNCHANGED << tc, config_vars, transcoded, call_failures, cancel_flag, is_processing, pm_lock,
                    item, next_id, call, cur,
                    blobs, tracks, albums, finished >>

\* Lines 315-318: the transcoding error is reported; continue.
drain_error_tc ==
    /\ drain = "upd_error_tc"
    /\ update_progress(cur, ErrTranscode)
    /\ drain' = "recv"
    /\ res' = "none"
    /\ album_id' = 0
    /\ UNCHANGED << tc, config_vars, transcoded, call_failures, cleanup_failures, cancel_flag, is_processing, pm_lock, queue, queue_rx,
                    r2_lock, mongo_lock, item, next_id, call, cur,
                    store_vars, finished, clean_vars >>


\* Lines 324-328: UploadingOriginal is reported and the put is started.
drain_start_original ==
    /\ drain = "upd_original"
    /\ update_progress(cur, "UploadingOriginal")
    /\ drain' = "put_original"
    /\ UNCHANGED << tc, config_vars, transcoded, call_failures, cleanup_failures, cancel_flag, is_processing, pm_lock, queue, queue_rx,
                    r2_lock, mongo_lock, item, next_id, call, cur, res, album_id,
                    store_vars, finished, clean_vars >>

\* upload_file_to_r2: the object is stored exactly when the call returns Ok.
upload_file_to_r2(key, r) ==
    IF r = "ok" THEN blobs \cup { key } ELSE blobs

\* Mutant of after_upload: the upload result is not inspected.
after_upload_ignores_error(r, next, failure) ==
    IF cancel_flag THEN "upd_cancelled" ELSE next

\* Mutant of after_upload: a successful upload always leads to the metadata stage.
after_upload_skips_aac(r, next, failure) ==
    IF cancel_flag THEN "upd_cancelled"
    ELSE IF r = "err" THEN failure
    ELSE "upd_storing"

\* The poll of the flag after an upload returned (lines 331 and 339, 357 and 365).
after_upload(r, next, failure) ==
    IF cancel_flag THEN "upd_cancelled"
    ELSE IF r = "err" THEN failure
    ELSE next

\* Lines 328-345: the put returns, the key is stored on the item, the flag is
\* polled, then the result is inspected.
drain_original_returns ==
    /\ drain = "put_original"
    /\ \E r \in Results :
          /\ Failed(r)
          /\ res' = r
          /\ blobs' = upload_file_to_r2(OriginalKey(item[cur]), r)
          /\ drain' = after_upload(r, "upd_aac", "upd_error_original")
    /\ item' = [item EXCEPT ![cur].r2_original_key = TRUE]
    /\ UNCHANGED << tc, config_vars, transcoded, cleanup_failures, cancel_flag, is_processing, pm_lock, queue, queue_rx,
                    r2_lock, mongo_lock, next_id, call, cur, album_id,
                    temp_files, tracks, albums, log_vars, finished, clean_vars >>

\* Lines 332-334, 358-360: Cancelled after an upload; cleanup and break follow.
drain_cancelled_upload ==
    /\ drain = "upd_cancelled"
    /\ update_progress(cur, "Cancelled")
    /\ drain' = "cleanup_break"
    /\ UNCHANGED << tc, config_vars, transcoded, call_failures, cleanup_failures, cancel_flag, is_processing, pm_lock, queue, queue_rx,
                    r2_lock, mongo_lock, item, next_id, call, cur, res, album_id,
                    store_vars, finished, clean_vars >>

\* Lines 340-342: the original upload error is reported; cleanup and continue follow.
drain_error_original ==
    /\ drain = "upd_error_original"
    /\ update_progress(cur, ErrOriginal)
    /\ drain' = "cleanup_continue"
    /\ UNCHANGED << tc, config_vars, transcoded, call_failures, cleanup_failures, cancel_flag, is_processing, pm_lock, queue, queue_rx,
                    r2_lock, mongo_lock, item, next_id, call, cur, res, album_id,
                    store_vars, finished, clean_vars >>

\* Lines 349-354: aac_path_ref is Some here; UploadingAAC is reported and the
\* put of the temp file is started.
drain_start_aac ==
    /\ drain = "upd_aac"
    /\ IF item[cur].temp_aac_path
       THEN /\ update_progress(cur, "UploadingAAC")
            /\ drain' = "put_aac"
       ELSE /\ update_progress(cur, "StoringMetadata")
            /\ drain' = "find_album"
    /\ UNCHANGED << tc, config_vars, transcoded, call_failures, cleanup_failures, cancel_flag, is_processing, pm_lock, queue, queue_rx,
                    r2_lock, mongo_lock, item, next_id, call, cur, res, album_id,
                    store_vars, finished, clean_vars >>

\* Lines 354-371: as for the original, with the AAC key.
drain_aac_returns ==
    /\ drain = "put_aac"
    /\ \E r \in Results :
          /\ Failed(r)
          /\ res' = r
          /\ blobs' = upload_file_to_r2(AacKey(cur), r)
          /\ drain' = after_upload(r, "upd_storing", "upd_error_aac")
    /\ item' = [item EXCEPT ![cur].r2_aac_key = TRUE]
    /\ UNCHANGED << tc, config_vars, transcoded, cleanup_failures, cancel_flag, is_processing, pm_lock, queue, queue_rx,
                    r2_lock, mongo_lock, next_id, call, cur, album_id,
                    temp_files, tracks, albums, log_vars, finished, clean_vars >>

\* Lines 366-368: the AAC upload error is reported; cleanup and continue follow.
drain_error_aac ==
    /\ drain = "upd_error_aac"
    /\ update_progress(cur, ErrAAC)
    /\ drain' = "cleanup_continue"
    /\ UNCHANGED << tc, config_vars, transcoded, call_failures, cleanup_failures, cancel_flag, is_processing, pm_lock, queue, queue_rx,
                    r2_lock, mongo_lock, item, next_id, call, cur, res, album_id,
                    store_vars, finished, clean_vars >>

\* Lines 379-381 and 486: StoringMetadata is reported; store_track_metadata
\* starts with the album lookup.
drain_start_storing ==
    /\ drain = "upd_storing"
    /\ update_progress(cur, "StoringMetadata")
    /\ drain' = "find_album"
    /\ UNCHANGED << tc, config_vars, transcoded, call_failures, cleanup_failures, cancel_flag, is_processing, pm_lock, queue, queue_rx,
                    r2_lock, mongo_lock, item, next_id, call, cur, res, album_id,
                    store_vars, finished, clean_vars >>

\* The poll of the flag once store_track_metadata has returned (lines 383, 392).
after_store(r) ==
    IF cancel_flag THEN "upd_cancelled_db"
    ELSE IF r = "ok" THEN "upd_complete"
    ELSE "upd_error_db"

\* Mutant of drain_find_album_returns: the lookup never finds an album.
drain_find_album_returns_never_finds ==
    /\ drain = "find_album"
    /\ \E r \in Results :
          /\ Failed(r)
          /\ IF r = "err"
             THEN /\ res' = "err"
                  /\ drain' = after_store("err")
             ELSE /\ drain' = "insert_album"
                  /\ UNCHANGED res
    /\ UNCHANGED << tc, config_vars, transcoded, cleanup_failures, cancel_flag, is_processing, pm_lock, queue, queue_rx,
                    r2_lock, mongo_lock, item, next_id, call, cur, album_id,
                    store_vars, log_vars, finished, clean_vars >>

\* Lines 486-509: find_one by (name, artist) returns; an existing album gives
\* its id and the track insert starts, otherwise the album insert starts.
drain_find_album_returns ==
    /\ drain = "find_album"
    /\ \E r \in Results :
          /\ Failed(r)
          /\ IF r = "err"
             THEN /\ res' = "err"
                  /\ drain' = after_store("err")
                  /\ UNCHANGED album_id
             ELSE LET found == { a \in albums : a.key = item[cur].album }
                  IN  IF found = {}
                      THEN /\ drain' = "insert_album"
                           /\ UNCHANGED << res, album_id >>
                      ELSE /\ \E a \in found : album_id' = a.id
                           /\ drain' = "insert_track"
                           /\ UNCHANGED res
    /\ UNCHANGED << tc, config_vars, transcoded, cleanup_failures, cancel_flag, is_processing, pm_lock, queue, queue_rx,
                    r2_lock, mongo_lock, item, next_id, call, cur,
                    store_vars, log_vars, finished, clean_vars >>

\* Lines 495-507: the album insert returns; the track insert starts.
drain_insert_album_returns ==
    /\ drain = "insert_album"
    /\ \E r \in Results :
          /\ Failed(r)
          /\ IF r = "err"
             THEN /\ res' = "err"
                  /\ drain' = after_store("err")
                  /\ UNCHANGED << album_id, albums >>
             ELSE /\ albums' = albums \cup { [id |-> cur, key |-> item[cur].album] }
                  /\ album_id' = cur
                  /\ drain' = "insert_track"
                  /\ UNCHANGED res
    /\ UNCHANGED << tc, config_vars, transcoded, cleanup_failures, cancel_flag, is_processing, pm_lock, queue, queue_rx,
                    r2_lock, mongo_lock, item, next_id, call, cur,
                    temp_files, blobs, tracks, log_vars, finished, clean_vars >>

\* Mutant of TrackDoc: the document carries no album id.
TrackDoc_without_album(id, it, aid) ==
    [ id |-> id, album_id |-> 0,
      r2_original_key |-> IF it.r2_original_key THEN OriginalKey(it) ELSE << >>,
      r2_aac_key |-> IF it.r2_aac_key THEN AacKey(id) ELSE << >> ]

\* The track document of lines 512-536.
TrackDoc(id, it, aid) ==
    [ id |-> id, album_id |-> aid,
      r2_original_key |-> IF it.r2_original_key THEN OriginalKey(it) ELSE << >>,
      r2_aac_key |-> IF it.r2_aac_key THEN AacKey(id) ELSE << >> ]

\* Lines 539-542 and 383-392: the track insert returns, store_track_metadata
\* returns, and the flag is polled.
drain_insert_track_returns ==
    /\ drain = "insert_track"
    /\ \E r \in Results :
          /\ Failed(r)
          /\ res' = r
          /\ tracks' = IF r = "ok"
                       THEN tracks \cup { TrackDoc(cur, item[cur], album_id) }
                       ELSE tracks
          /\ drain' = after_store(r)
    /\ UNCHANGED << tc, config_vars, transcoded, cleanup_failures, cancel_flag, is_processing, pm_lock, queue, queue_rx,
                    r2_lock, mongo_lock, item, next_id, call, cur, album_id,
                    temp_files, blobs, albums, log_vars, finished, clean_vars >>

\* Mutant of track_id_on_cancel: the id of the stored track is not recorded.
track_id_on_cancel_forgotten(it, r) == it.db_track_id

\* Line 387: if let Ok(ref track_id) = db_result { item.db_track_id = Some(..) }.
track_id_on_cancel(it, r) ==
    IF r = "ok" THEN TRUE ELSE it.db_track_id

\* Lines 384-387: Cancelled after the DB write attempt; the id of a stored
\* track is recorded; cleanup and break follow.
drain_cancelled_db ==
    /\ drain = "upd_cancelled_db"
    /\ update_progress(cur, "Cancelled")
    /\ item' = [item EXCEPT ![cur].db_track_id = track_id_on_cancel(item[cur], res)]
    /\ drain' = "cleanup_break"
    /\ UNCHANGED << tc, config_vars, transcoded, call_failures, cleanup_failures, cancel_flag, is_processing, pm_lock, queue, queue_rx,
                    r2_lock, mongo_lock, next_id, call, cur, res, album_id,
                    store_vars, finished, clean_vars >>

\* Lines 400-402: the metadata error is reported; cleanup and continue follow.
drain_error_db ==
    /\ drain = "upd_error_db"
    /\ update_progress(cur, ErrMetadata)
    /\ drain' = "cleanup_continue"
    /\ UNCHANGED << tc, config_vars, transcoded, call_failures, cleanup_failures, cancel_flag, is_processing, pm_lock, queue, queue_rx,
                    r2_lock, mongo_lock, item, next_id, call, cur, res, album_id,
                    store_vars, finished, clean_vars >>

\* Lines 393-411: the track id is recorded, Complete is reported, and the temp
\* file is removed (item.temp_aac_path.take()).
drain_complete ==
    /\ drain = "upd_complete"
    /\ update_progress(cur, "Complete")
    /\ \E failed \in Failures({ "temp" }) :
          /\ cleanup_failures' = cleanup_failures + Cardinality(failed)
          /\ temp_files' = (IF item[cur].temp_aac_path
                            THEN cleanup_temp_file(cur, failed) ELSE temp_files)
          /\ cleanup_log' = (IF item[cur].temp_aac_path
                             THEN cleanup_log \o << "temp" >> ELSE cleanup_log)
          /\ cleanup_failed' = cleanup_failed \cup failed
    /\ item' = [item EXCEPT ![cur].db_track_id = TRUE, ![cur].temp_aac_path = FALSE]
    /\ drain' = "recv"
    /\ res' = "none"
    /\ album_id' = 0
    /\ UNCHANGED << tc, config_vars, transcoded, call_failures, cancel_flag, is_processing, pm_lock, queue, queue_rx,
                    r2_lock, mongo_lock, next_id, call, cur,
                    blobs, tracks, albums, finished >>

\* Lines 335, 361, 388: perform_cleanup, then break.
drain_cleanup_break ==
    /\ drain = "cleanup_break"
    /\ perform_cleanup(item[cur], cur)
    /\ loop_exit
    /\ res' = "none"
    /\ album_id' = 0
    /\ UNCHANGED << tc, config_vars, transcoded, call_failures, cancel_flag, is_processing, pm_lock,
                    item, next_id, call, cur, log_vars, finished >>

\* Mutant of drain_cleanup_continue: the loop is left after the cleanup.
drain_cleanup_continue_breaks ==
    /\ drain = "cleanup_continue"
    /\ perform_cleanup(item[cur], cur)
    /\ loop_exit
    /\ res' = "none"
    /\ album_id' = 0
    /\ UNCHANGED << tc, config_vars, transcoded, call_failures, cancel_flag, is_processing, pm_lock,
                    item, next_id, call, cur, log_vars, finished >>

\* Lines 343, 369, 403: perform_cleanup, then continue.
drain_cleanup_continue ==
    /\ drain = "cleanup_continue"
    /\ perform_cleanup(item[cur], cur)
    /\ drain' = "recv"
    /\ res' = "none"
    /\ album_id' = 0
    /\ UNCHANGED << tc, config_vars, transcoded, call_failures, cancel_flag, is_processing, pm_lock, queue, queue_rx,
                    r2_lock, mongo_lock, item, next_id, call, cur,
                    log_vars, finished >>

\* Lines 226-235: the running marker is reset and upload://queue-finished is emitted.
drain_finish ==
    /\ drain = "returned"
    /\ is_processing' = FALSE
    /\ finished' = finished + 1
    /\ drain' = "none"
    /\ UNCHANGED << tc, config_vars, transcoded, call_failures, cleanup_failures, cancel_flag, pm_lock, queue, queue_rx,
                    r2_lock, mongo_lock, item, next_id, call, cur, res, album_id,
                    store_vars, log_vars, clean_vars >>

\* ------------------------------------------------------- specification
Start ==
    \E c \in Callers :
        \/ start_invoke(c)
        \/ start_check_r2(c)
        \/ start_check_mongo(c)
        \/ start_lock_map(c)
        \/ start_loop_item(c)
        \/ start_spawn(c)

Drain ==
    \/ drain_take_rx
    \/ drain_lock_r2
    \/ drain_lock_mongo
    \/ drain_recv
    \/ drain_cancelled_pre
    \/ drain_start_transcoding
    \/ drain_transcoding_returns
    \/ drain_cancelled_tc
    \/ drain_error_tc
    \/ drain_start_original
    \/ drain_original_returns
    \/ drain_cancelled_upload
    \/ drain_error_original
    \/ drain_start_aac
    \/ drain_aac_returns
    \/ drain_error_aac
    \/ drain_start_storing
    \/ drain_find_album_returns
    \/ drain_insert_album_returns
    \/ drain_insert_track_returns
    \/ drain_cancelled_db
    \/ drain_error_db
    \/ drain_complete
    \/ drain_cleanup_break
    \/ drain_cleanup_continue
    \/ drain_finish

Next == Start \/ Drain \/ cancel_upload_queue

Spec == Init /\ [][Next]_vars

\* The system when cancel_upload_queue is never called: the flag is never
\* set, so the drain takes none of its cancellation branches.
DrainNoCancel ==
    \/ drain_take_rx
    \/ drain_lock_r2
    \/ drain_lock_mongo
    \/ drain_recv
    \/ drain_start_transcoding
    \/ drain_transcoding_returns
    \/ drain_error_tc
    \/ drain_start_original
    \/ drain_original_returns
    \/ drain_error_original
    \/ drain_start_aac
    \/ drain_aac_returns
    \/ drain_error_aac
    \/ drain_start_storing
    \/ drain_find_album_returns
    \/ drain_insert_album_returns
    \/ drain_insert_track_returns
    \/ drain_error_db
    \/ drain_complete
    \/ drain_cleanup_continue
    \/ drain_finish

NextNoCancel == Start \/ DrainNoCancel

SpecNoCancel == Init /\ [][NextNoCancel]_vars


\* ------------------------------------------------------ transcode_to_aac
\* The variables of the upload queue, which transcode_to_aac does not touch.
upload_vars == << config_vars, cancel_flag, is_processing, progress_map, pm_lock, queue,
                  queue_rx, r2_lock, mongo_lock, item, next_id, call, drain, cur, res,
                  album_id, store_vars, emitted, written, finished, clean_vars,
                  call_failures, cleanup_failures, transcoded >>

\* The states of output_path.parent(): there is none, it exists, it is missing.
ParentStates == { "none", "exists", "missing" }

\* Output paths: the temp file run_transcoding passes, a path in a nested
\* directory, and a path without a parent.
TcOutputs == { [path |-> "/tmp/transcoded_1.m4a", parents |-> { "exists", "missing" }],
               [path |-> "/out/nested/a.m4a", parents |-> { "exists", "missing" }],
               [path |-> "/", parents |-> { "none" }] }

\* How a child that was waited for ended: status.success(), an exit code, a signal.
ExitStatuses == { "success", "code", "signal" }

TcReturn(t, r) == [t EXCEPT !.pc = "done", !.result = r]

\* transcode_to_aac(input_path, output_path) is called.
transcode_call ==
    /\ tc.pc \in { "idle", "done" }
    /\ \E in \in Inputs, out \in TcOutputs :
          \E par \in out.parents :
             tc' = [ pc |-> "check_input", input |-> in.path, output |-> out.path,
                     input_exists |-> in.exists, parent |-> par,
                     dir_created |-> FALSE, spawned |-> FALSE,
                     result |-> [kind |-> "none"] ]
    /\ UNCHANGED upload_vars

\* Mutant of transcode_check_input: the input is not looked at.
transcode_check_input_skipped ==
    /\ tc.pc = "check_input"
    /\ tc' = [tc EXCEPT !.pc = "ensure_dir"]
    /\ UNCHANGED upload_vars

\* transcode.rs 21-23: if !input_path.exists() return InputFileNotFound(path).
transcode_check_input ==
    /\ tc.pc = "check_input"
    /\ tc' = IF tc.input_exists
             THEN [tc EXCEPT !.pc = "ensure_dir"]
             ELSE TcReturn(tc, [kind |-> "InputFileNotFound", path |-> tc.input])
    /\ UNCHANGED upload_vars

\* Mutant of transcode_ensure_dir: a missing parent is not created.
transcode_ensure_dir_skipped ==
    /\ tc.pc = "ensure_dir"
    /\ tc' = [tc EXCEPT !.pc = "spawn"]
    /\ UNCHANGED upload_vars

\* transcode.rs 26-32: create_dir_all for a missing parent; its failure returns.
transcode_ensure_dir ==
    /\ tc.pc = "ensure_dir"
    /\ IF tc.parent = "missing"
       THEN \/ tc' = [tc EXCEPT !.pc = "spawn", !.parent = "exists", !.dir_created = TRUE]
            \/ tc' = TcReturn(tc, [kind |-> "OutputDirectoryCreationFailed"])
       ELSE tc' = [tc EXCEPT !.pc = "spawn"]
    /\ UNCHANGED upload_vars

\* transcode.rs 35-51: the ffmpeg command is built and spawned.
transcode_spawn ==
    /\ tc.pc = "spawn"
    /\ \/ tc' = [tc EXCEPT !.pc = "wait", !.spawned = TRUE]
       \/ tc' = TcReturn(tc, [kind |-> "ProcessStartFailed"])
    /\ UNCHANGED upload_vars

\* transcode.rs 54-81: stderr is read, the child is waited for, its status decides.
transcode_wait ==
    /\ tc.pc = "wait"
    /\ \/ \E k \in { "StderrReadFailed", "IoError" } : tc' = TcReturn(tc, [kind |-> k])
       \/ \E st \in ExitStatuses :
             tc' = TcReturn(tc, IF st = "success" THEN [kind |-> "Ok"]
                                ELSE [kind |-> "ProcessExecutionFailed", status |-> st])
    /\ UNCHANGED upload_vars

NextTranscode ==
    \/ transcode_call
    \/ transcode_check_input
    \/ transcode_ensure_dir
    \/ transcode_spawn
    \/ transcode_wait

\* transcode_to_aac on its own, called again and again with any arguments.
InitTranscode ==
    /\ Init
    /\ r2_client /\ mongo_client /\ bucket_name /\ window = "ok"

SpecTranscode == InitTranscode /\ [][NextTranscode]_vars


\* ============================================================== claims
\* The drain has finished handling item i: i is the last item it received
\* and it is past that item's last step (waiting for the next one, or gone).
LoopBody == { "upd_cancelled_pre", "upd_transcoding", "transcoding", "upd_cancelled_tc",
              "upd_error_tc", "upd_original", "put_original", "upd_cancelled",
              "upd_error_original", "upd_aac", "put_aac", "upd_error_aac",
              "upd_storing", "find_album", "insert_album", "insert_track",
              "upd_cancelled_db", "upd_error_db", "upd_complete",
              "cleanup_break", "cleanup_continue" }
Handled(i) == cur = i /\ drain \notin LoopBody
RolledBack(i) == Handled(i) /\ progress_map[i] \in ({ "Cancelled" } \cup ErrorStatuses)

\* C1 (as claimed): once an item has ended Cancelled or Error and the drain is
\* done with it, no object is left at its recorded original key or AAC key.
C1_NoDanglingBlob ==
    \A i \in Ids : RolledBack(i) =>
        /\ item[i].r2_original_key => OriginalKey(item[i]) \notin blobs
        /\ item[i].r2_aac_key => AacKey(i) \notin blobs

\* C1 (amended): no object is left at a recorded key unless the delete that
\* cleanup issued for that key failed.
C1_NoDanglingBlobUnlessDeleteFailed ==
    \A i \in Ids : RolledBack(i) =>
        /\ (item[i].r2_original_key /\ "original" \notin cleanup_failed)
              => OriginalKey(item[i]) \notin blobs
        /\ (item[i].r2_aac_key /\ "aac" \notin cleanup_failed)
              => AacKey(i) \notin blobs

\* C1 witness: metadata storage failed after both uploads succeeded, cleanup
\* deleted both objects.
C1_Witness ==
    \E i \in Ids :
        /\ RolledBack(i)
        /\ progress_map[i] = ErrMetadata
        /\ item[i].r2_original_key /\ item[i].r2_aac_key
        /\ cleanup_failed = {}
        /\ { "original", "aac" } \subseteq Range(cleanup_log)
        /\ OriginalKey(item[i]) \notin blobs /\ AacKey(i) \notin blobs

\* C2 (as claimed): an item that ended Cancelled or Error leaves no track
\* document of its own in the tracks collection.
C2_NoDanglingTrack ==
    \A i \in Ids : RolledBack(i) => ~(\E t \in tracks : t.id = i)

\* C2 (amended): no track document of the item is left unless the delete_one
\* that cleanup issued for it failed.
C2_NoDanglingTrackUnlessDeleteFailed ==
    \A i \in Ids : (RolledBack(i) /\ "track" \notin cleanup_failed)
                      => ~(\E t \in tracks : t.id = i)

\* C2 witness: the cancel was seen after the track insert had succeeded; the
\* id was recorded and the document deleted.
C2_Witness ==
    \E i \in Ids :
        /\ RolledBack(i)
        /\ progress_map[i] = "Cancelled"
        /\ item[i].db_track_id
        /\ "track" \in Range(cleanup_log)
        /\ cleanup_failed = {}
        /\ ~(\E t \in tracks : t.id = i)

\* C3 (as claimed): whatever the terminal state, once the drain is done with
\* an item no temp file of that item exists.
C3_NoDanglingTemp ==
    \A i \in Ids : Handled(i) => i \notin temp_files

\* C3 (amended): no temp file of the item exists unless its remove_file failed.
C3_NoDanglingTempUnlessRemoveFailed ==
    \A i \in Ids : (Handled(i) /\ "temp" \notin cleanup_failed) => i \notin temp_files

\* C3 witness: a Complete item whose temp file was produced and then removed.
C3_Witness ==
    \E i \in Ids :
        /\ Handled(i)
        /\ progress_map[i] = "Complete"
        /\ "temp" \in Range(cleanup_log)
        /\ cleanup_failed = {}
        /\ i \notin temp_files


\* C4: an item that ends Complete has, when the drain is done with it, its
\* original object stored, its AAC object stored exactly when the transcode
\* produced a file, its track document stored, and the album that document
\* references stored.
C4_CompleteImpliesDurable ==
    \A i \in Ids : (Handled(i) /\ progress_map[i] = "Complete") =>
        /\ item[i].r2_original_key /\ OriginalKey(item[i]) \in blobs
        /\ (item[i].r2_aac_key /\ AacKey(i) \in blobs) <=> (i \in transcoded)
        /\ \E t \in tracks : t.id = i /\ (\E a \in albums : a.id = t.album_id)

\* C4 witness: a Complete item with both objects, its track and its album.
C4_Witness ==
    \E i \in Ids :
        /\ Handled(i) /\ progress_map[i] = "Complete"
        /\ i \in transcoded
        /\ { OriginalKey(item[i]), AacKey(i) } \subseteq blobs
        /\ \E t \in tracks : t.id = i /\ (\E a \in albums : a.id = t.album_id)

TerminalOnlyLast(s) == \A k \in 1..Len(s) : s[k] \in TerminalStatuses => k = Len(s)

\* C5: per item id at most one terminal status is emitted and at most one is
\* written to the progress map, and nothing is emitted or written after it.
C5_TerminalUniqueness ==
    \A i \in Ids : TerminalOnlyLast(emitted[i]) /\ TerminalOnlyLast(written[i])

\* C5 witness: after a start and a cancel, an item whose events ended with a
\* terminal status while another item ended with its own.
C5_Witness ==
    \E i, j \in Ids :
        /\ i # j
        /\ Len(emitted[i]) >= 3 /\ emitted[i][Len(emitted[i])] = "Cancelled"
        /\ written[i] = emitted[i]
        /\ emitted[j] # <<>> /\ emitted[j][Len(emitted[j])] \in TerminalStatuses

IsChainPrefix(s) == Len(s) <= Len(Chain) /\ \A k \in 1..Len(s) : s[k] = Chain[k]

Quiescent ==
    /\ \A c \in Callers : call[c].pc \in { "idle", "done" }
    /\ drain = "none" \/ (drain = "recv" /\ queue = <<>>)

OkCalls == { c \in Callers : call[c].result = "ok" }

\* C7: for each start_upload_queue call that admitted a batch exactly one
\* upload://queue-finished is emitted: when nothing is in progress any more,
\* there are as many such events as calls that returned Ok.
C7_BatchDoneExactlyOnce ==
    Quiescent => finished = Cardinality(OkCalls)

\* C8: once the cancel flag is set, the drain starts no external call
\* (transcode, blob put, album lookup or insert, track insert).
C8_NoCallStartedAfterCancel ==
    [][ (drain' \in ExternalCalls /\ drain' # drain) => ~cancel_flag ]_vars

\* C9: when the drain has stopped after observing the cancellation in the
\* middle of an item, every item that was queued behind it is Cancelled.
C9_QueuedItemsCancelled ==
    (drain = "none" /\ queue_rx = "dropped" /\ cur # 0 /\ progress_map[cur] = "Cancelled")
        => \A i \in Ids : (item[i] # NoItem /\ i > cur) => progress_map[i] = "Cancelled"

\* C10: without any cancel, with the capabilities configured, once nothing
\* is in progress any more (no call is blocked on the queue), every admitted
\* item has reached Complete or Error.
C10_EveryItemTerminates ==
    (r2_client /\ mongo_client /\ bucket_name /\ Quiescent)
        => \A i \in Ids : item[i] # NoItem
                             => progress_map[i] \in ({ "Complete" } \cup ErrorStatuses)

\* The drain waits in rx.recv() on an empty queue and no call is past its
\* client checks: only a call that gets past them can give the drain work.
DrainWaitsForCalls ==
    /\ drain = "recv" /\ queue = <<>>
    /\ \A c \in Callers : call[c].pc \in { "idle", "done", "check_r2", "check_mongo" }

\* C11: a start_upload_queue call made while the drain waits for the next
\* item is not held up by the drain: it can pass its client checks (and then
\* append to the live queue and return).
C11_CallJoinsRunningDrain ==
    \A c \in Callers :
        DrainWaitsForCalls =>
            /\ call[c].pc = "check_r2" => ~r2_lock
            /\ call[c].pc = "check_mongo" => ~mongo_lock

\* C12: once an earlier batch was cancelled and a later batch has cleared
\* the flag, no item of the later batch whose path exists is turned away
\* with "Failed to queue".
C12_BatchAfterCancelAdmitted ==
    (~cancel_flag /\ \E j \in Ids : progress_map[j] = "Cancelled")
        => \A i \in Ids : progress_map[i] # ErrQueue

ActiveStatuses == { "Transcoding", "UploadingOriginal", "UploadingAAC", "StoringMetadata" }
ActiveItems == { i \in Ids : progress_map[i] \in ActiveStatuses }

\* C13: a drain task is spawned only when none is alive, the task in the
\* loop is the only one, and at most one item (the one the drain holds) is in
\* Transcoding, UploadingOriginal, UploadingAAC or StoringMetadata.
C13_SingleDrainSingleItem ==
    /\ [](/\ Cardinality(ActiveItems) <= 1
          /\ ActiveItems \subseteq { cur }
          /\ ActiveItems # {} => drain \in LoopBody
          /\ drain # "none" => is_processing)
    /\ [][(drain' = "spawned" /\ drain # "spawned") => (drain = "none" /\ ~is_processing)]_vars

\* C13 witness: a second call returned Ok without spawning while the drain
\* was working on an item and another item waited in the queue.
C13_Witness ==
    /\ Cardinality(OkCalls) = 2
    /\ Cardinality(ActiveItems) = 1
    /\ queue # <<>>
    /\ drain \in LoopBody

\* The drain has received item i: it holds it, or has reported a status
\* other than Pending for it.
Received(i) == cur = i \/ \E k \in DOMAIN written[i] : written[i][k] # "Pending"

\* C14: ids are drawn in admission order; when the drain has received an
\* enqueued item b, every enqueued item a admitted before b has a terminal
\* status.
C14_FifoConsumption ==
    \A a, b \in Ids :
        (a < b /\ item[a] # NoItem /\ item[b] # NoItem /\ Received(b))
            => progress_map[a] \in TerminalStatuses

\* C14 witness: both items of a batch were enqueued; the drain completed the
\* first and now works on the second.
C14_Witness ==
    \E a, b \in Ids :
        /\ a < b /\ item[a] # NoItem /\ item[b] # NoItem
        /\ cur = b /\ drain \in LoopBody
        /\ progress_map[a] = "Complete"
        /\ written[b] # <<>>

RejectedResults == { "err_r2", "err_mongo", "err_empty" }

\* A call that must be rejected: a client is absent or the batch is empty.
MustReject(c) == ~r2_client \/ ~mongo_client \/ call[c].batch = <<>>

\* The step in which a call is rejected gives the error of the first failing
\* check and changes nothing but the call itself.
RejectionHasNoEffect ==
    \A c \in Callers :
        /\ (call[c].pc \in { "check_r2", "check_mongo" } /\ call'[c].pc = "done")
              => /\ call'[c].result \in RejectedResults
                 /\ UNCHANGED << cancel_flag, queue, queue_rx, progress_map, is_processing,
                                 emitted, written, drain, finished, item, next_id, pm_lock >>
        /\ (call[c].pc \in { "check_r2", "check_mongo" } /\ call'[c] # call[c] /\ MustReject(c))
              => call'[c].pc \in { "check_mongo", "done" }
        /\ (call[c].pc = "check_mongo" /\ call'[c] # call[c] /\ MustReject(c))
              => call'[c].pc = "done"

\* A call that must be rejected is not kept waiting at its client checks by
\* a drain that itself waits for the next item.
RejectionNotBlocked ==
    \A c \in Callers :
        (MustReject(c) /\ DrainWaitsForCalls) =>
            /\ call[c].pc = "check_r2" => ~r2_lock
            /\ call[c].pc = "check_mongo" => ~mongo_lock

\* C15: a call with an absent client or an empty batch returns an error, and
\* the cancel flag, the queue, the progress map and the running marker are
\* unchanged, no event is emitted and no task is spawned.
C15_RejectedCallReturnsError ==
    []RejectionNotBlocked /\ [][RejectionHasNoEffect]_vars

\* C16: while the receiver is alive, an id drawn without a queue item is an
\* input whose path does not exist: its only progress entry is
\* Error("File not found"), it is never queued or received, and nothing is
\* transcoded, put or written for it.
C16_MissingFileRejectedAtAdmission ==
    queue_rx # "dropped" =>
        \A i \in Ids : (i < next_id /\ item[i] = NoItem) =>
            /\ progress_map[i] = ErrNotFound
            /\ written[i] = << ErrNotFound >>
            /\ i \notin Range(queue) /\ cur # i
            /\ i \notin temp_files /\ i \notin transcoded
            /\ AacKey(i) \notin blobs
            /\ ~(\E t \in tracks : t.id = i)

PipelineErrors == { ErrTranscode, ErrOriginal, ErrAAC, ErrMetadata }

\* C17: with no cancellation, an item the drain is done with is Complete or
\* carries the Error of its failed stage, and after an Error the drain is
\* back in rx.recv() with the receiver alive, ready for the items behind it.
C17_FailureDoesNotStopDrain ==
    \A i \in Ids : Handled(i) =>
        /\ progress_map[i] \in ({ "Complete" } \cup PipelineErrors)
        /\ progress_map[i] \in PipelineErrors
              => (drain = "recv" /\ queue_rx = "taken" /\ is_processing)

\* C17 witness: an item failed at the original upload and the item queued
\* behind it was then processed to Complete.
C17_Witness ==
    \E a, b \in Ids :
        /\ a < b
        /\ progress_map[a] = ErrOriginal
        /\ Handled(b) /\ progress_map[b] = "Complete"

\* C18: a cancel_upload_queue call sets the flag and changes nothing else,
\* a call made with the flag already set changes nothing at all, and the
\* call can be made in every state.
C18_CancelIdempotent ==
    /\ [](ENABLED cancel_upload_queue)
    /\ [][cancel_upload_queue =>
            /\ cancel_flag'
            /\ UNCHANGED << tc, config_vars, transcoded, call_failures, cleanup_failures,
                            is_processing, pm_lock, queue, queue_rx, r2_lock, mongo_lock,
                            item, next_id, call, drain, cur, res, album_id,
                            store_vars, log_vars, finished, clean_vars >>
            /\ cancel_flag => UNCHANGED vars ]_vars

\* C18 witness: the flag is set while the drain works on an item and another
\* item waits in the queue.
C18_Witness ==
    cancel_flag /\ drain \in ExternalCalls /\ queue # <<>>

NonTerminalStatuses == { "Pending" } \cup ActiveStatuses

\* C19: the flag goes from set to clear only when no item is Pending or in
\* progress.
C19_CancelNotLost ==
    [][ (cancel_flag /\ ~cancel_flag')
            => \A i \in Ids : progress_map[i] \notin NonTerminalStatuses ]_vars

\* C20: when nothing is in progress and every admitted item is terminal, no
\* drain task is left and is_processing is false.
C20_DrainExitsWhenQueueEmpty ==
    (Quiescent /\ \A i \in Ids : progress_map[i] \notin NonTerminalStatuses)
        => (drain = "none" /\ ~is_processing)

\* C21: a progress event that cannot be delivered aborts nothing: no
\* start_upload_queue call returns the error of a failed emit.
C21_EmitFailureNeverAborts ==
    \A c \in Callers : call[c].result # "err_emit"

Last(s) == s[Len(s)]

C23_CapabilitiesCheckedAtAdmission ==
    ~(queue_rx = "dropped" /\ cur = 0)

\* A call waits in queue_tx.send for a slot of the full queue.
WaitsForSlot(c) ==
    /\ call[c].pc = "loop"
    /\ call[c].batch # <<>>
    /\ Head(call[c].batch).exists
    /\ Len(queue) = QueueCap
    /\ queue_rx # "dropped"

\* C24: a call that waits for a slot of the full queue is waiting for a
\* drain task that exists (and will free a slot).
C24_FullQueueOnlyDelays ==
    \A c \in Callers : WaitsForSlot(c) => drain # "none"

\* C25: the album collection only grows, and the steps that run
\* perform_cleanup or remove the temp file of a cancelled item leave it as
\* it is.
C25_RollbackKeepsAlbums ==
    /\ [][albums \subseteq albums']_vars
    /\ [][(drain \in { "cleanup_break", "cleanup_continue", "upd_cancelled_tc" })
             => albums' = albums]_vars

\* C25 witness: an item was cancelled after its metadata was stored; its
\* track was deleted by the cleanup and the album it created is still there.
C25_Witness ==
    \E i \in Ids :
        /\ RolledBack(i)
        /\ "track" \in Range(cleanup_log) /\ cleanup_failed = {}
        /\ ~(\E t \in tracks : t.id = i)
        /\ \E a \in albums : a.id = i /\ a.key = item[i].album

AlbumKeys == { in.album : in \in Inputs }

\* C26: with no cancellation, at most two album documents exist per (name,
\* artist), every track document references an existing album document of
\* its item's (name, artist), and as long as no call has failed every item
\* the drain is done with is Complete.
C26_SameAlbumItems ==
    /\ \A k \in AlbumKeys : Cardinality({ a \in albums : a.key = k }) <= 2
    /\ \A t \in tracks : \E a \in albums : a.id = t.album_id /\ a.key = item[t.id].album
    /\ call_failures = 0 => \A i \in Ids : Handled(i) => progress_map[i] = "Complete"

\* C26 witness: two items of one batch with the same (name, artist) are both
\* Complete and their two tracks reference the one album document.
C26_Witness ==
    \E i, j \in Ids :
        /\ i < j
        /\ item[i].album = item[j].album
        /\ progress_map[i] = "Complete" /\ Handled(j) /\ progress_map[j] = "Complete"
        /\ \E t, u \in tracks : t.id = i /\ u.id = j /\ t.album_id = u.album_id
        /\ Cardinality(OkCalls) = 1 /\ call[2].pc = "idle"

\* The effect of every cleanup step that was made and did not fail is there.
CleanupTookEffect(i) ==
    LET done == Range(cleanup_log) \ cleanup_failed
    IN  /\ "temp" \in done => i \notin temp_files
        /\ "original" \in done => OriginalKey(item[i]) \notin blobs
        /\ "aac" \in done => AacKey(i) \notin blobs
        /\ "track" \in done => ~(\E t \in tracks : t.id = i)

\* C28: perform_cleanup attempts every step whose field is set whether or
\* not an earlier step failed, leaves the progress map and the events
\* alone, and the drain goes on as the branch says (break or continue);
\* afterwards the effect of every step that did not fail is there.
C28_CleanupFailureOnlyLogged ==
    /\ [](\A i \in Ids : RolledBack(i) => CleanupTookEffect(i))
    /\ [][(drain \in { "cleanup_break", "cleanup_continue" } /\ drain' # drain)
             => /\ cleanup_log' = cleanup_log \o perform_cleanup_calls(item[cur])
                /\ cleanup_failed \subseteq cleanup_failed'
                /\ UNCHANGED log_vars
                /\ drain' = (IF drain = "cleanup_break" THEN "returned" ELSE "recv")]_vars

\* C28 witness: the first cleanup step of an item failed, the later steps
\* were made and took effect, the item is still Error and the drain waits
\* for the next item.
C28_Witness ==
    \E i \in Ids :
        /\ RolledBack(i) /\ drain = "recv"
        /\ progress_map[i] \in ErrorStatuses
        /\ Len(cleanup_log) >= 3
        /\ cleanup_failed = { cleanup_log[1] }
        /\ OriginalKey(item[i]) \notin blobs /\ AacKey(i) \notin blobs

drain_panic ==
    /\ drain \in LoopBody
    /\ drain' = "panicked"
    /\ queue_rx' = "dropped"
    /\ queue' = <<>>
    /\ r2_lock' = FALSE
    /\ mongo_lock' = FALSE
    /\ UNCHANGED << tc, config_vars, transcoded, call_failures, cleanup_failures, cancel_flag,
                    is_processing, pm_lock, item, next_id, call, cur, res, album_id,
                    store_vars, log_vars, finished, clean_vars >>

NextPanic == Next \/ drain_panic

SpecPanic == Init /\ [][NextPanic]_vars

\* C27: after a panic in the processing of an item, the item has an Error
\* status, what cleanup was due has been done, the receiver is still there
\* for the next item, and is_processing is not left true by a dead task.
C27_PanicIsCaught ==
    drain = "panicked" =>
        /\ progress_map[cur] \in ErrorStatuses
        /\ CleanupTookEffect(cur) /\ cur \notin temp_files
        /\ queue_rx # "dropped"
        /\ ~is_processing

\* C30: for an input path that does not exist, transcode_to_aac returns
\* InputFileNotFound with that path, and at no point of the run has it
\* created the output directory or spawned the transcoder.
C30_MissingInputRejectedFirst ==
    (tc.pc # "idle" /\ ~tc.input_exists) =>
        /\ ~tc.dir_created /\ ~tc.spawned /\ tc.parent \in ParentStates
        /\ tc.pc \in { "check_input", "done" }
        /\ tc.pc = "done" => tc.result = [kind |-> "InputFileNotFound", path |-> tc.input]

\* C30 witness: the call returned InputFileNotFound for the missing input
\* while the parent of the output path is still missing.
C30_Witness ==
    /\ tc.pc = "done" /\ ~tc.input_exists
    /\ tc.result = [kind |-> "InputFileNotFound", path |-> "/m/gone.wav"]
    /\ tc.parent = "missing" /\ ~tc.dir_created /\ ~tc.spawned

\* C31 (as claimed): when the input file exists and transcode_to_aac has
\* returned, whatever the result, the parent directory of the output path
\* exists.
C31_ParentExistsAfterReturn ==
    (tc.pc = "done" /\ tc.input_exists /\ tc.parent # "none") => tc.parent = "exists"

\* C31 (amended): the parent directory exists after the return unless the
\* result is OutputDirectoryCreationFailed, which is returned with the parent
\* still missing and before anything is spawned; the transcoder is never
\* spawned with the parent missing.
C31_ParentExistsUnlessCreationFailed ==
    /\ (tc.pc = "done" /\ tc.input_exists /\ tc.parent # "none"
            /\ tc.result.kind # "OutputDirectoryCreationFailed") => tc.parent = "exists"
    /\ (tc.pc = "done" /\ tc.result.kind = "OutputDirectoryCreationFailed")
            => (tc.input_exists /\ tc.parent = "missing" /\ ~tc.spawned /\ ~tc.dir_created)
    /\ (tc.spawned \/ tc.pc \in { "spawn", "wait" }) => tc.parent # "missing"

\* C31 witness: the nested parent was missing, it was created, the
\* transcoder ran and failed, and the directory is there after the return.
C31_Witness ==
    /\ tc.pc = "done" /\ tc.input_exists
    /\ tc.output = "/out/nested/a.m4a"
    /\ tc.dir_created /\ tc.spawned /\ tc.parent = "exists"
    /\ tc.result.kind = "ProcessExecutionFailed"

\* The order of undoing that reverses the order of commitment.
ReverseOfCommitment == << "track", "aac", "original", "temp" >>
RankInReverse(step) == CHOOSE k \in DOMAIN ReverseOfCommitment : ReverseOfCommitment[k] = step

\* C32: the cleanup calls made for an item come in reverse order of
\* commitment: the track document first, then the compressed object, then
\* the original object, and the temp file last.
C32_CleanupInReverseOrder ==
    \A k, l \in DOMAIN cleanup_log :
        k < l => RankInReverse(cleanup_log[k]) < RankInReverse(cleanup_log[l])

\* C33: while the drain works on an item, a cleanup field that is set names
\* a side effect that was committed (the temp file exists, the object is
\* stored at the key, the track document is stored), and when cleanup is about
\* to read the fields every committed side effect of the item has its field set.
C33_FieldsMatchSideEffects ==
    drain \in LoopBody =>
        /\ item[cur].temp_aac_path => cur \in temp_files
        /\ item[cur].r2_original_key => OriginalKey(item[cur]) \in blobs
        /\ item[cur].r2_aac_key => AacKey(cur) \in blobs
        /\ item[cur].db_track_id => \E t \in tracks : t.id = cur
        /\ drain \in { "cleanup_break", "cleanup_continue" } =>
              /\ cur \in temp_files => item[cur].temp_aac_path
              /\ AacKey(cur) \in blobs => item[cur].r2_aac_key
              /\ (\E t \in tracks : t.id = cur) => item[cur].db_track_id

\* The stages entered after an earlier external call has returned, at the
\* point where the stage is about to be entered (its status is not yet reported).
LaterStageEntries == { "upd_original", "upd_aac", "upd_storing" }

\* C34: the flag is polled before the entry of each stage: Transcoding is
\* entered only by a step that saw the flag clear, and a flag that is set when
\* UploadingOriginal, UploadingAAC or StoringMetadata is about to be entered
\* keeps the drain from starting that stage's external call.
C34_PollBeforeEachStage ==
    /\ [][(drain' = "upd_transcoding" /\ drain # "upd_transcoding") => ~cancel_flag]_vars
    /\ [][(drain \in LaterStageEntries /\ cancel_flag) => drain' \notin ExternalCalls]_vars

\* C35: when the terminal Cancelled or Error event of the item the drain
\* holds has been delivered, and no cleanup step has failed, the item's temp
\* file, its objects and its track document are already gone.
C35_CleanupBeforeTerminalEvent ==
    (cur # 0 /\ emitted[cur] # <<>> /\ cleanup_failed = {}
        /\ Last(emitted[cur]) \in ({ "Cancelled" } \cup PipelineErrors)) =>
        /\ cur \notin temp_files
        /\ item[cur].r2_original_key => OriginalKey(item[cur]) \notin blobs
        /\ AacKey(cur) \notin blobs
        /\ ~(\E t \in tracks : t.id = cur)

\* C36: the cleanup of one item removes no object of a Complete item: the
\* original object of every Complete item is in the store, also when
\* several items share a basename and with it the original key.
C36_CompleteOriginalSurvives ==
    \A i \in Ids : progress_map[i] = "Complete" => OriginalKey(item[i]) \in blobs

\* C37: there is at most one album document per (name, artist); an album is
\* inserted only by the drain's album insert and only when no album of the
\* item's (name, artist) exists; every track references the album document
\* of its item's (name, artist).
C37_FindOrCreateNoDuplicate ==
    /\ [](\A k \in AlbumKeys : Cardinality({ a \in albums : a.key = k }) <= 1)
    /\ [](\A t \in tracks : \E a \in albums : a.id = t.album_id /\ a.key = item[t.id].album)
    /\ [][albums' # albums =>
            /\ drain = "insert_album"
            /\ ~(\E a \in albums : a.key = item[cur].album)
            /\ Cardinality(albums') = Cardinality(albums) + 1]_vars

\* C37 witness: an item created the album and then failed at the track
\* insert; a later item of the same (name, artist) completed with a track
\* that references that album, and no second album was inserted.
C37_Witness ==
    \E i, j \in Ids :
        /\ i < j
        /\ progress_map[i] = ErrMetadata
        /\ progress_map[j] = "Complete"
        /\ item[i].album = item[j].album
        /\ albums = { [id |-> i, key |-> item[i].album] }
        /\ \E t \in tracks : t.id = j /\ t.album_id = i

\* C38: the receiver only goes from stored to taken (by a spawned task) and
\* from taken to dropped, so it is taken at most once; process_upload_queue
\* is entered only by the task that took it, and items are received only
\* while it is taken; a task spawned when the receiver is no longer stored
\* goes straight to its end without touching an item, the queue, the stores
\* or the progress map, and the end of a task resets is_processing and
\* makes the queue-finished emit.
C38_ReceiverTakenOnce ==
    /\ [][queue_rx' # queue_rx =>
            \/ (queue_rx = "stored" /\ queue_rx' = "taken" /\ drain = "spawned")
            \/ (queue_rx = "taken" /\ queue_rx' = "dropped")]_vars
    /\ [][(drain' = "lock_r2" /\ drain # "lock_r2") => (queue_rx = "stored" /\ queue_rx' = "taken")]_vars
    /\ [][cur' # cur => (queue_rx = "taken" /\ queue_rx' = "taken")]_vars
    /\ [][(drain = "spawned" /\ queue_rx # "stored" /\ drain' # drain) =>
            /\ drain' = "returned"
            /\ UNCHANGED << cur, queue, queue_rx, item, store_vars, log_vars >>]_vars
    /\ [][(drain = "returned" /\ drain' # drain) =>
            (drain' = "none" /\ ~is_processing' /\ finished' = finished + 1)]_vars

\* C38 witness: the first task took the receiver and ended; a second call
\* spawned a second task, which found no receiver and ended too: both
\* queue-finished emits were made, the marker is reset, and the second
\* call's item was never received.
C38_Witness ==
    /\ window = "ok"
    /\ queue_rx = "dropped" /\ drain = "none" /\ ~is_processing
    /\ finished = Cardinality(OkCalls) /\ OkCalls = Callers
    /\ \E i \in Ids : progress_map[i] = ErrQueue /\ cur # i

====
